---- MODULE Spec2Model ----
(***************************************************************************)
(* The request rate-limiting middleware of the worker                      *)
(* (src/worker/index.ts, lines 245-323): one module-level window store,    *)
(* the handler returned by rateLimit(options), and the stage that follows  *)
(* it (await next()).                                                      *)
(*                                                                         *)
(* Time is Date.now() in milliseconds.  The handler body up to its         *)
(* `await next()` contains no await, so on the single-threaded event loop  *)
(* it is one atomic step; requests interleave only while suspended in      *)
(* next().                                                                 *)
(***************************************************************************)
EXTENDS Integers, Sequences, FiniteSets, TLC

VARIABLES
    now,            \* the value Date.now() returns
    requestCounts,  \* the module-level Map: key -> [count, resetTime]
    mounted,        \* the limiters the host routes requests through
    reqs,           \* the requests that entered a limiter, in order of entry
    calls,          \* the requests the router is dispatching, in order of arrival
    todos,          \* App: the list displayed
    newTodoText,    \* App: the text of the input
    loading,        \* App: the loading flag
    error,          \* App: the error message, or Null
    inflight,       \* App: the API calls that have not settled, with the
                    \* list their handler captured when it began
    settled         \* App: the API calls that settled, in order

\* the state of the worker and the state of the App component
worker == <<now, requestCounts, mounted, reqs, calls>>
ui == <<todos, newTodoText, loading, error, inflight, settled>>

vars == <<worker, ui>>

----------------------------------------------------------------------------
(* Bounds of the model *)

\* granularity, in ms, at which the clock is observed
Tick == 500
\* the clock stops advancing after this many ticks
MaxTicks == 3
\* number of requests that enter a limiter in one run
MaxRequests == 4
\* options.max of the two limiters the runs are made with
MaxA == 2
MaxB == 3
\* options.max of the limiter whose windows hold the fewest requests
MaxC == 1

MaxNow == MaxTicks * Tick

\* Math.ceil(.../1000): milliseconds per second
MsPerSecond == 1000

----------------------------------------------------------------------------
(* Limiters built by rateLimit(options) *)

Limiters == {"limiterA", "limiterB"}

\* limiters with the same window and different max
SameWindowLimiters == {"limiterA", "limiterC"}

\* limiters built with windowMs <= 0 or max <= 0
Misconfigured == {"limiterNoMax", "limiterNoWindow"}

AllLimiters == Limiters \cup SameWindowLimiters \cup Misconfigured

\* lines 261-268: rateLimit(options) destructures the options and returns
\* the handler; it tests no option and throws nothing
ConstructionFails(options) == FALSE

DefaultMessage == "Too many requests, please try again later."

\* the options each limiter is built with; message is left to its default
\* by limiterA, as apiRateLimit does, and given by limiterB, as
\* strictRateLimit does
\* limiterC has the window of limiterA and a smaller max, with the message
\* of authRateLimit.  The last two are built with options the type
\* RateLimitOptions allows and the data model forbids: max = 0, windowMs = 0.
Options(l) ==
    CASE l = "limiterA" ->
           [windowMs |-> 2 * Tick, max |-> MaxA, message |-> DefaultMessage]
      [] l = "limiterB" ->
           [windowMs |-> Tick, max |-> MaxB,
            message |-> "Too many requests for this resource"]
      [] l = "limiterC" ->
           [windowMs |-> 2 * Tick, max |-> MaxC,
            message |-> "Too many authentication attempts"]
      [] l = "limiterNoMax" ->
           [windowMs |-> 2 * Tick, max |-> 0, message |-> DefaultMessage]
      [] l = "limiterNoWindow" ->
           [windowMs |-> 0, max |-> MaxA, message |-> DefaultMessage]

windowMs(l) == Options(l).windowMs
max(l) == Options(l).max
message(l) == Options(l).message

----------------------------------------------------------------------------
(* Requests: the only part of a request the limiter reads is the           *)
(* CF-Connecting-IP header.                                                *)

NoHeader == "<absent>"
CfConnectingIp == {NoHeader, "", "203.0.113.7"}

\* faulty variant: the fallback is missing
keyGenerator_raw(ip) == ip

\* (c) => c.req.header('CF-Connecting-IP') || 'unknown'
\* an absent header is undefined and an empty one is '', both falsy
keyGenerator(ip) == IF ip = NoHeader \/ ip = "" THEN "unknown" ELSE ip

Keys == {keyGenerator(ip) : ip \in CfConnectingIp}

----------------------------------------------------------------------------
(* Conversions to header strings.  A decimal string and an ISO-8601 string *)
(* are kept apart from the numbers they print and from each other.         *)

\* Number.prototype.toString()
DecStr(n) == [dec |-> n]
\* new Date(ms).toISOString()
IsoStr(ms) == [iso |-> ms]

\* faulty variant: Math.floor in place of Math.ceil
CeilDiv_floor(a, b) == a \div b

\* Math.ceil(a / b) for b > 0
CeilDiv(a, b) == IF a % b = 0 THEN a \div b ELSE (a \div b) + 1

\* Math.max(0, n)
ClampZero(n) == IF n < 0 THEN 0 ELSE n

----------------------------------------------------------------------------
(* The window store: a Map, modelled as a function whose domain is the set *)
(* of keys that have an entry.                                             *)

EmptyMap == [k \in {} |-> [count |-> 0, resetTime |-> 0]]

\* Map.prototype.set
MapSet(m, key, v) ==
    [k \in DOMAIN m \cup {key} |-> IF k = key THEN v ELSE m[k]]

\* faulty variant: every entry is dropped, expired or not
SweepExpired_all(v, t) == TRUE

\* faulty variant: the sweep also drops the entry whose reset time is now
SweepExpired_inclusive(v, t) == v.resetTime <= t

\* line 275: the test the cleanup loop applies to each entry
SweepExpired(v, t) == v.resetTime < t

\* lines 273-278: "Clean up old entries"
Sweep(m, t) ==
    [k \in {x \in DOMAIN m : ~SweepExpired(m[x], t)} |-> m[k]]

\* faulty variant: the comparison is inverted, a live entry counts as expired
WindowExpired_inverted(requestCount, t) == requestCount.resetTime > t

\* line 283, second disjunct: the entry found is past its reset time
WindowExpired(requestCount, t) == requestCount.resetTime < t

\* faulty variant: the new entry already counts the request
FreshEntry_counted(t, w) == [count |-> 1, resetTime |-> t + w]

\* faulty variant: windowMs is not added, the window ends as it starts
FreshEntry_noWindow(t, w) == [count |-> 0, resetTime |-> t]

\* lines 284-287: the entry a new window starts with
FreshEntry(t, w) == [count |-> 0, resetTime |-> t + w]

\* faulty variant: the entry is replaced on every request
GetOrCreate_always(m, key, t, w) == MapSet(m, key, FreshEntry(t, w))

\* lines 281-289: "Get or create request count for this key"
GetOrCreate(m, key, t, w) ==
    IF key \notin DOMAIN m \/ WindowExpired(m[key], t)
    THEN MapSet(m, key, FreshEntry(t, w))
    ELSE m

\* faulty variant: the increment is lost
Touch_lost(requestCount) == requestCount

\* faulty variant: a request also pushes the reset time back
Touch_postponed(requestCount) ==
    [requestCount EXCEPT !.count = @ + 1, !.resetTime = @ + 1]

\* faulty variant: -- in place of ++
Touch_down(requestCount) == [requestCount EXCEPT !.count = @ - 1]

\* faulty variant: the request is counted twice
Touch_twice(requestCount) == [requestCount EXCEPT !.count = @ + 2]

\* line 291: requestCount.count++
Touch(requestCount) == [requestCount EXCEPT !.count = @ + 1]

\* faulty variant: no Math.max, the value goes negative
Remaining_unclamped(m, count) == m - count

\* line 295: Math.max(0, max - requestCount.count)
Remaining(m, count) == ClampZero(m - count)

\* faulty variant: the reset header is not set
RateLimitHeaders_noReset(m, requestCount) ==
    ("X-RateLimit-Limit" :> DecStr(m))
    @@ ("X-RateLimit-Remaining" :> DecStr(Remaining(m, requestCount.count)))

\* lines 294-296: "Set rate limit headers"
RateLimitHeaders(m, requestCount) ==
    ("X-RateLimit-Limit" :> DecStr(m))
    @@ ("X-RateLimit-Remaining" :> DecStr(Remaining(m, requestCount.count)))
    @@ ("X-RateLimit-Reset" :> IsoStr(requestCount.resetTime))

\* faulty variant: off by one, the max-th request is refused
LimitExceeded_atMax(count, m) == count >= m

\* faulty variant: off by one, the (max+1)-th request is admitted
LimitExceeded_lenient(count, m) == count > m + 1

\* line 299: "Check if limit exceeded"
LimitExceeded(count, m) == count > m

\* line 300: the Retry-After header of a rejection
RetryAfterHeader(requestCount, t) ==
    "Retry-After" :> DecStr(CeilDiv(requestCount.resetTime - t, MsPerSecond))

\* faulty variant: the return is missing and control falls through to next()
NextCalls_fallthrough(exceeded) == 1

\* lines 299-304: the return of line 301 keeps a rejection from line 304
NextCalls(exceeded) == IF exceeded THEN 0 ELSE 1

----------------------------------------------------------------------------
(* The stage after the limiter: validation middleware and route handler.   *)
(* What it answers does not depend on the limiter.  The answer modelled is *)
(* the one of app.notFound (line 235): like a rejection it carries an      *)
(* error body, which makes it the answer hardest to tell from one.         *)

DownstreamResponses ==
    { [status |-> 404, body |-> [error |-> "Not found"]] }

\* c.json({ error: message }, 429)
RejectionStatus == 429

----------------------------------------------------------------------------
(* One request through the handler of limiter l, lines 269-305.            *)
(*                                                                         *)
(* The record kept for a request holds what the handler saw and did:       *)
(*   at, prior      Date.now() and the key's entry when the handler began  *)
(*   count          requestCount.count after the increment                 *)
(*   headers, status, body   the response                                  *)
(*   nextCalls      how many times the handler called next()               *)
(*   pc             "next" while suspended in await next(), then "done"    *)

Pending == 0

Handled(l, key, t, store) ==
    LET swept == Sweep(store, t)
        got == GetOrCreate(swept, key, t, windowMs(l))
        after == [got EXCEPT ![key] = Touch(@)]
        requestCount == after[key]
        exceeded == LimitExceeded(requestCount.count, max(l))
        limitHeaders == RateLimitHeaders(max(l), requestCount)
    IN  [ store |-> after,
          req |->
            [ limiter |-> l,
              key |-> key,
              at |-> t,
              prior |-> IF key \in DOMAIN store THEN <<store[key]>> ELSE <<>>,
              count |-> requestCount.count,
              headers |-> IF exceeded
                          THEN limitHeaders @@ RetryAfterHeader(requestCount, t)
                          ELSE limitHeaders,
              status |-> IF exceeded THEN RejectionStatus ELSE Pending,
              body |-> IF exceeded THEN [error |-> message(l)] ELSE [none |-> TRUE],
              nextCalls |-> NextCalls(exceeded),
              pc |-> IF NextCalls(exceeded) > 0 THEN "next" ELSE "done" ] ]

\* a request arrives at a route that limiter l guards
rateLimit(l, ip) ==
    /\ l \in mounted
    /\ Len(reqs) < MaxRequests
    /\ LET h == Handled(l, keyGenerator(ip), now, requestCounts)
       IN  /\ requestCounts' = h.store
           /\ reqs' = Append(reqs, h.req)
    /\ UNCHANGED <<now, mounted, calls, ui>>

\* line 304: the awaited next() of request i resolves; the response is the
\* one the later stage produced, with the headers the limiter had set.  A
\* handler that fell through to next() after answering keeps its answer.
NextResolves(i, r) ==
    /\ i \in 1..Len(reqs)
    /\ reqs[i].pc = "next"
    /\ reqs' = [reqs EXCEPT ![i] =
                  IF @.status = Pending
                  THEN [@ EXCEPT !.pc = "done", !.status = r.status, !.body = r.body]
                  ELSE [@ EXCEPT !.pc = "done"]]
    /\ UNCHANGED <<now, requestCounts, mounted, calls, ui>>

\* the clock advances
Advance ==
    /\ now < MaxNow
    /\ now' = now + Tick
    /\ UNCHANGED <<requestCounts, mounted, reqs, calls, ui>>

----------------------------------------------------------------------------
(* The App component, src/src/App.tsx lines 5-65, with the API client of   *)
(* src/src/lib/api/client.ts.  A handler runs up to its await in one step  *)
(* and goes on, when the call settles, with the values of the render in    *)
(* which it began: its setTodos works on the list it captured then.  A     *)
(* todo is its id and its completed flag.                                  *)

\* calls of addTodo, toggleTodo and deleteTodo begun in one run
MaxOps == 2

\* null
Null == "<null>"

\* what the user types
Texts == {"", " ", "milk"}

\* String.prototype.trim
trim(text) == IF text = " " THEN "" ELSE text

\* the id of the todo the server holds when the App is mounted
FirstId == 1

\* what GET /api/todos answers
TodoLists == { <<>>, <<[id |-> FirstId, completed |-> FALSE]>> }

\* the HTTP status of a response: a success, a rejection by the limiter, a
\* failure of the worker
ApiStatuses == {200, RejectionStatus, 500}

\* faulty variant: a rejection by the limiter is not an error
ResponseOk_lenient(status) == status # 500

\* client.ts line 44: response.ok
ResponseOk(status) == status \in 200..299

\* faulty variant: no finally, the flag is cleared on success only
LoadingAfter_noFinally(ok) == ~ok

\* lines 25-27: finally { setLoading(false) }
LoadingAfter(ok) == FALSE

\* lines 23, 40, 51, 62: the message each handler sets in its catch
ErrorMessage(op) ==
    CASE op = "loadTodos" ->
           "Failed to load todos. Make sure the backend is running!"
      [] op = "addTodo" -> "Failed to add todo"
      [] op = "toggleTodo" -> "Failed to update todo"
      [] op = "deleteTodo" -> "Failed to delete todo"

\* faulty variant: the input is cleared whether the call failed or not
InputAfter_cleared(ok, text) == ""

\* line 38: setNewTodoText('') in the try of addTodo, after the await
InputAfter(ok, text) == IF ok THEN "" ELSE text

\* the ids of a list
Ids(list) == {list[n].id : n \in 1..Len(list)}

\* line 37: [...todos, newTodo]
WithTodo(list, newTodo) == Append(list, newTodo)

\* line 49: todos.map((todo) => (todo.id === id ? updated : todo))
WithUpdated(list, id, updated) ==
    [n \in 1..Len(list) |-> IF list[n].id = id THEN updated ELSE list[n]]

\* line 60: todos.filter((todo) => todo.id !== id)
Without(list, id) ==
    LET Keep(todo) == todo.id # id
    IN  SelectSeq(list, Keep)

\* a sequence without its i-th element
Remove(seq, i) == SubSeq(seq, 1, i - 1) \o SubSeq(seq, i + 1, Len(seq))

\* the calls of `op` among the calls of a log
Of(log, op) == {n \in 1..Len(log) : log[n].op = op}

\* calls of addTodo, toggleTodo and deleteTodo begun so far
Begun ==
    Cardinality({n \in 1..Len(inflight) : inflight[n].op # "loadTodos"})
    + Cardinality({n \in 1..Len(settled) : settled[n].op # "loadTodos"})

\* the id the server gives the next todo it creates
NextId == FirstId + 1 + Cardinality({n \in Of(settled, "addTodo") : settled[n].ok})

\* lines 6-9: the state of the first render
InitApp ==
    /\ todos = <<>>
    /\ newTodoText = ""
    /\ loading = TRUE
    /\ error = Null
    /\ inflight = <<>>
    /\ settled = <<>>

\* a handler begins a call: what it captured and what it asked for
Begins(op, id, completed) ==
    Append(inflight, [op |-> op, id |-> id, completed |-> completed,
                      todos |-> todos, loading |-> loading])

\* the record kept of call i of inflight once it settled: the todo it was
\* about, the status of the response, the list the response held, and the
\* loading flag when the call began
Settled(i, id, status, data) ==
    [op |-> inflight[i].op, id |-> id, status |-> status, ok |-> ResponseOk(status),
     data |-> data, loading |-> inflight[i].loading]

\* lines 12-20: the effect of the first render runs loadTodos up to its await
loadTodos ==
    /\ Of(inflight, "loadTodos") = {} /\ Of(settled, "loadTodos") = {}
    /\ loading' = TRUE
    /\ error' = Null
    /\ inflight' = Begins("loadTodos", 0, FALSE)
    /\ UNCHANGED <<todos, newTodoText, settled, worker>>

\* lines 20-27: the call of loadTodos settles
loadTodosSettles(i, status, data) ==
    /\ i \in 1..Len(inflight)
    /\ inflight[i].op = "loadTodos"
    /\ LET ok == ResponseOk(status)
       IN  /\ todos' = IF ok THEN data ELSE todos
           /\ error' = IF ok THEN error ELSE ErrorMessage("loadTodos")
           /\ loading' = LoadingAfter(ok)
           /\ settled' = Append(settled, Settled(i, 0, status, IF ok THEN data ELSE <<>>))
    /\ inflight' = Remove(inflight, i)
    /\ UNCHANGED <<newTodoText, worker>>

\* line 93: onChange
setNewTodoText(text) ==
    /\ text # newTodoText
    /\ newTodoText' = text
    /\ UNCHANGED <<todos, loading, error, inflight, settled, worker>>

\* lines 30-36: addTodo up to its await
addTodo ==
    /\ Begun < MaxOps
    /\ trim(newTodoText) # ""
    /\ error' = Null
    /\ inflight' = Begins("addTodo", 0, FALSE)
    /\ UNCHANGED <<todos, newTodoText, loading, settled, worker>>

\* lines 36-42: the call of addTodo settles
addTodoSettles(i, status) ==
    /\ i \in 1..Len(inflight)
    /\ inflight[i].op = "addTodo"
    /\ LET ok == ResponseOk(status)
           newTodo == [id |-> NextId, completed |-> FALSE]
       IN  /\ todos' = IF ok THEN WithTodo(inflight[i].todos, newTodo) ELSE todos
           /\ newTodoText' = InputAfter(ok, newTodoText)
           /\ error' = IF ok THEN error ELSE ErrorMessage("addTodo")
           /\ settled' = Append(settled, Settled(i, NextId, status, <<>>))
    /\ inflight' = Remove(inflight, i)
    /\ UNCHANGED <<loading, worker>>

\* lines 45-48, from the checkbox of a todo of the list displayed (line 132)
toggleTodo(n) ==
    /\ Begun < MaxOps
    /\ ~loading
    /\ n \in 1..Len(todos)
    /\ error' = Null
    /\ inflight' = Begins("toggleTodo", todos[n].id, todos[n].completed)
    /\ UNCHANGED <<todos, newTodoText, loading, settled, worker>>

\* lines 48-53: the call of toggleTodo settles
toggleTodoSettles(i, status) ==
    /\ i \in 1..Len(inflight)
    /\ inflight[i].op = "toggleTodo"
    /\ LET ok == ResponseOk(status)
           updated == [id |-> inflight[i].id, completed |-> ~inflight[i].completed]
       IN  /\ todos' = IF ok THEN WithUpdated(inflight[i].todos, inflight[i].id, updated)
                       ELSE todos
           /\ error' = IF ok THEN error ELSE ErrorMessage("toggleTodo")
           /\ settled' = Append(settled, Settled(i, inflight[i].id, status, <<>>))
    /\ inflight' = Remove(inflight, i)
    /\ UNCHANGED <<newTodoText, loading, worker>>

\* lines 56-59, from the button of a todo of the list displayed (line 145)
deleteTodo(n) ==
    /\ Begun < MaxOps
    /\ ~loading
    /\ n \in 1..Len(todos)
    /\ error' = Null
    /\ inflight' = Begins("deleteTodo", todos[n].id, todos[n].completed)
    /\ UNCHANGED <<todos, newTodoText, loading, settled, worker>>

\* lines 59-64: the call of deleteTodo settles
deleteTodoSettles(i, status) ==
    /\ i \in 1..Len(inflight)
    /\ inflight[i].op = "deleteTodo"
    /\ LET ok == ResponseOk(status)
       IN  /\ todos' = IF ok THEN Without(inflight[i].todos, inflight[i].id) ELSE todos
           /\ error' = IF ok THEN error ELSE ErrorMessage("deleteTodo")
           /\ settled' = Append(settled, Settled(i, inflight[i].id, status, <<>>))
    /\ inflight' = Remove(inflight, i)
    /\ UNCHANGED <<newTodoText, loading, worker>>

\* a call settles
Settles ==
    \E i \in 1..(MaxOps + 1), status \in ApiStatuses :
        \/ \E data \in TodoLists : loadTodosSettles(i, status, data)
        \/ addTodoSettles(i, status)
        \/ toggleTodoSettles(i, status)
        \/ deleteTodoSettles(i, status)

NextApp ==
    \/ loadTodos
    \/ \E text \in Texts : setNewTodoText(text)
    \/ addTodo
    \/ \E n \in 1..(MaxOps + 1) : toggleTodo(n) \/ deleteTodo(n)
    \/ Settles

----------------------------------------------------------------------------
(* Specifications *)

InitCommon ==
    /\ now = 0
    /\ requestCounts = EmptyMap
    /\ reqs = <<>>
    /\ calls = <<>>
    /\ InitApp

\* the worker as src/worker/index.ts mounts it: one limiter in front of the
\* routes (line 75), whichever options it was built with
Init == InitCommon /\ \E l \in Limiters : mounted = {l}

\* a host that mounts several of the exported limiters (lines 309-324)
InitPresets == InitCommon /\ mounted = Limiters

\* the worker with one limiter mounted, of those that share a window length
InitWindows == InitCommon /\ \E l \in SameWindowLimiters : mounted = {l}

\* the worker with one limiter mounted that was built with windowMs <= 0 or
\* max <= 0, if rateLimit(options) returns one
InitConfig ==
    /\ InitCommon
    /\ \E l \in Misconfigured : ~ConstructionFails(Options(l)) /\ mounted = {l}

Next ==
    \/ \E l \in AllLimiters, ip \in CfConnectingIp : rateLimit(l, ip)
    \/ \E i \in 1..MaxRequests, r \in DownstreamResponses : NextResolves(i, r)
    \/ Advance

Spec == Init /\ [][Next]_vars

SpecPresets == InitPresets /\ [][Next]_vars

SpecWindows == InitWindows /\ [][Next]_vars

SpecConfig == InitConfig /\ [][Next]_vars

\* entries no run of the handler leaves in the Map, which its type
\* { count: number; resetTime: number } allows: a negative count in a
\* window still open, and a reset time before the clock's first value
CorruptEntries ==
    { [count |-> 0 - 1, resetTime |-> 2 * Tick],
      [count |-> 0 - 1, resetTime |-> 0 - Tick],
      [count |-> 1, resetTime |-> 0 - Tick] }

\* the worker finding such an entry in the store, under one key
InitCorrupt ==
    /\ now = 0
    /\ reqs = <<>>
    /\ calls = <<>>
    /\ InitApp
    /\ \E l \in SameWindowLimiters : mounted = {l}
    /\ \E k \in Keys, e \in CorruptEntries : requestCounts = MapSet(EmptyMap, k, e)

SpecCorrupt == InitCorrupt /\ [][Next]_vars

\* the App is rendered for the first time; no limiter is part of the page
InitBrowser == InitCommon /\ mounted = {}

\* the App in the browser: the effect of the first render runs, and every
\* call the client makes settles, with a response or with an error
SpecApp ==
    /\ InitBrowser
    /\ [][NextApp]_vars
    /\ WF_vars(loadTodos)
    /\ WF_vars(Settles)

----------------------------------------------------------------------------
(* Runs without end.  The handler reads the clock and the reset times only *)
(* through their differences and sums (lines 275, 283, 286, 300), so a run *)
(* is followed from a moving origin: the clock of the model stays at its   *)
(* value and a tick moves every stored time one Tick into the past.  The   *)
(* log holds the latest request, while the instant of its arrival lasts.   *)

\* a reset time seen one tick later; the store tests an expired entry only
\* for being expired, so all of them are kept at one value
Rebased(resetTime) ==
    IF resetTime - Tick < now - Tick THEN now - Tick ELSE resetTime - Tick

\* a request arrives at a route that limiter l guards; a client stops after
\* MaxRequests requests within one window
rateLimitLive(l, ip) ==
    /\ l \in mounted
    /\ LET key == keyGenerator(ip)
       IN  (key \in DOMAIN requestCounts /\ ~WindowExpired(requestCounts[key], now))
               => requestCounts[key].count < MaxRequests
    /\ LET h == Handled(l, keyGenerator(ip), now, requestCounts)
       IN  /\ requestCounts' = h.store
           /\ reqs' = <<h.req>>
    /\ UNCHANGED <<now, mounted, calls, ui>>

\* the clock advances
AdvanceLive ==
    /\ requestCounts' =
           [k \in DOMAIN requestCounts |->
               [requestCounts[k] EXCEPT !.resetTime = Rebased(@)]]
    /\ reqs' = <<>>
    /\ UNCHANGED <<now, mounted, calls, ui>>

NextLive ==
    \/ \E l \in AllLimiters, ip \in CfConnectingIp : rateLimitLive(l, ip)
    \/ AdvanceLive

\* time keeps advancing, and the client without CF-Connecting-IP keeps
\* sending requests
SpecLive ==
    /\ InitWindows
    /\ [][NextLive]_vars
    /\ WF_vars(AdvanceLive)
    /\ WF_vars(\E l \in AllLimiters : rateLimitLive(l, NoHeader))

----------------------------------------------------------------------------
(* The router, lines 30-236: app.use and app.get/put register handlers     *)
(* under a method and a path; a request runs the handlers that match it    *)
(* in the order they were registered, each one passing on with next() or   *)
(* answering.  Paths are sequences of segments.                            *)

\* requests the router has in hand at one time
MaxCalls == 2

\* faulty variant: the limiter is registered after the routes
Registered_limiterLast ==
    << [method |-> "ALL", path |-> <<"*">>, handler |-> "cors"],
       [method |-> "ALL", path |-> <<"*">>, handler |-> "securityHeaders"],
       [method |-> "GET", path |-> <<"api", "health">>, handler |-> "health"],
       [method |-> "PUT", path |-> <<"api", "todos", ":id">>,
        handler |-> "validate.params"],
       [method |-> "PUT", path |-> <<"api", "todos", ":id">>,
        handler |-> "validate.body"],
       [method |-> "PUT", path |-> <<"api", "todos", ":id">>,
        handler |-> "putTodo"],
       [method |-> "ALL", path |-> <<"api", "*">>, handler |-> "apiRateLimit"] >>

\* lines 62, 72, 75, 78, 160: the handlers in the order of registration
Registered ==
    << [method |-> "ALL", path |-> <<"*">>, handler |-> "cors"],
       [method |-> "ALL", path |-> <<"*">>, handler |-> "securityHeaders"],
       [method |-> "ALL", path |-> <<"api", "*">>, handler |-> "apiRateLimit"],
       [method |-> "GET", path |-> <<"api", "health">>, handler |-> "health"],
       [method |-> "PUT", path |-> <<"api", "todos", ":id">>,
        handler |-> "validate.params"],
       [method |-> "PUT", path |-> <<"api", "todos", ":id">>,
        handler |-> "validate.body"],
       [method |-> "PUT", path |-> <<"api", "todos", ":id">>,
        handler |-> "putTodo"] >>

\* the requests of the runs: an update, a health check, a path outside /api
Requests ==
    { [method |-> "PUT", path |-> <<"api", "todos", "7">>],
      [method |-> "GET", path |-> <<"api", "health">>],
      [method |-> "GET", path |-> <<"assets", "app.js">>] }

\* a segment of a registered path against a segment of a request path
SegmentMatches(p, seg) == p = ":id" \/ p = seg

\* a registered path against a request path; a trailing * takes the rest
PathMatches(pattern, path) ==
    IF pattern[Len(pattern)] = "*"
    THEN /\ Len(path) >= Len(pattern) - 1
         /\ \A n \in 1..(Len(pattern) - 1) : SegmentMatches(pattern[n], path[n])
    ELSE /\ Len(path) = Len(pattern)
         /\ \A n \in 1..Len(pattern) : SegmentMatches(pattern[n], path[n])

HandlerMatches(h, request) ==
    /\ h.method = "ALL" \/ h.method = request.method
    /\ PathMatches(h.path, request.path)

\* the handlers a request runs through, in order
Handlers(request) ==
    LET Test(h) == HandlerMatches(h, request)
    IN  SelectSeq(Registered, Test)

\* lines 62-69 and part_005 line 8: handlers that call next() before any
\* answer of their own
PassThrough == {"cors", "securityHeaders"}

\* the clients of the runs behind the router: the browser of a local
\* session, whose requests carry no CF-Connecting-IP
RouteClients == {NoHeader}

\* a request arrives at the worker and goes through the leading handlers
\* that pass every request on
fetch(request) ==
    /\ Len(calls) < MaxCalls
    /\ LET hs == Handlers(request)
           first == CHOOSE n \in 1..(Len(hs) + 1) :
                        /\ n = Len(hs) + 1 \/ hs[n].handler \notin PassThrough
                        /\ \A m \in 1..(n - 1) : hs[m].handler \in PassThrough
       IN  calls' = Append(calls,
                       [request |-> request, pos |-> first,
                        ran |-> [m \in 1..(first - 1) |-> hs[m].handler],
                        req |-> 0, status |-> Pending])
    /\ UNCHANGED <<now, requestCounts, mounted, reqs, ui>>

\* handler `name` of call c calls next()
Passes(c, name) ==
    [calls EXCEPT ![c] = [@ EXCEPT !.pos = @ + 1, !.ran = Append(@, name)]]

\* the work `done` of call c ends with a response of status st
Answers(c, done, st) ==
    [calls EXCEPT ![c] = [@ EXCEPT !.pos = 0, !.ran = @ \o done, !.status = st]]

\* the response of call c returns through the limiter's await next(), if the
\* call is suspended there
Returns(c, st) ==
    IF calls[c].req > 0
    THEN [reqs EXCEPT ![calls[c].req] =
             [@ EXCEPT !.pc = "done", !.status = st, !.body = [status |-> st]]]
    ELSE reqs

\* lines 160-211, by what the body holds: without a field to update the
\* handler answers 400 (line 180), with one it executes the UPDATE (line
\* 190) and answers
putTodoOutcomes ==
    { [updates |-> FALSE, status |-> 400],
      [updates |-> TRUE, status |-> 200] }

\* the limiter as handler of call c: lines 269-305
limiterStage(c, name) ==
    \E l \in mounted, ip \in RouteClients :
        LET h == Handled(l, keyGenerator(ip), now, requestCounts)
            n == Len(reqs) + 1
        IN  /\ requestCounts' = h.store
            /\ reqs' = Append(reqs, h.req)
            /\ calls' = IF h.req.nextCalls > 0
                        THEN [Passes(c, name) EXCEPT ![c].req = n]
                        ELSE [Answers(c, <<name>>, h.req.status) EXCEPT ![c].req = n]

\* validate.params / validate.body as handler of call c: the schema accepts
\* and next() is called, or it throws and the answer is 400
validateStage(c, name) ==
    \E ok \in BOOLEAN :
        /\ calls' = IF ok THEN Passes(c, name) ELSE Answers(c, <<name>>, 400)
        /\ reqs' = IF ok THEN reqs ELSE Returns(c, 400)
        /\ UNCHANGED requestCounts

\* the route handler of PUT /api/todos/:id as handler of call c
putTodoStage(c, name) ==
    \E out \in putTodoOutcomes :
        /\ calls' = Answers(c, IF out.updates THEN <<name, "UPDATE">> ELSE <<name>>,
                            out.status)
        /\ reqs' = Returns(c, out.status)
        /\ UNCHANGED requestCounts

\* the next handler of call c runs up to its next() or its answer
dispatch(c) ==
    /\ c \in 1..Len(calls)
    /\ calls[c].pos > 0
    /\ LET hs == Handlers(calls[c].request)
           name == hs[calls[c].pos].handler
       IN  IF calls[c].pos > Len(hs)
           THEN \* app.notFound, line 234
                /\ calls' = Answers(c, <<"notFound">>, 404)
                /\ reqs' = Returns(c, 404)
                /\ UNCHANGED requestCounts
           ELSE CASE name \in PassThrough ->
                       /\ calls' = Passes(c, name)
                       /\ UNCHANGED <<requestCounts, reqs>>
                  [] name = "apiRateLimit" -> limiterStage(c, name)
                  [] name \in {"validate.params", "validate.body"} ->
                       validateStage(c, name)
                  [] name = "health" ->
                       /\ calls' = Answers(c, <<name>>, 200)
                       /\ reqs' = Returns(c, 200)
                       /\ UNCHANGED requestCounts
                  [] name = "putTodo" -> putTodoStage(c, name)
    /\ UNCHANGED <<now, mounted, ui>>

NextRoute ==
    \/ \E request \in Requests : fetch(request)
    \/ \E c \in 1..MaxCalls : dispatch(c)
    \/ Advance

\* the worker behind its router, one limiter in front of /api/*
SpecRoute == InitWindows /\ [][NextRoute]_vars

----------------------------------------------------------------------------
(* Vocabulary of the properties: what a client can read off the responses  *)

ReqIds == 1..Len(reqs)

LimitOf(i) == reqs[i].headers["X-RateLimit-Limit"].dec
RemainingOf(i) == reqs[i].headers["X-RateLimit-Remaining"].dec
ResetOf(i) == reqs[i].headers["X-RateLimit-Reset"].iso

Rejected(i) == reqs[i].status = RejectionStatus
Admitted(i) == ~Rejected(i)

\* two requests were counted in the same window of the same key
SameWindow(i, j) ==
    /\ reqs[i].key = reqs[j].key
    /\ ResetOf(i) = ResetOf(j)

Window(i) == {j \in ReqIds : SameWindow(i, j)}

\* the position of request i among the requests of its window
Ordinal(i) == Cardinality({j \in 1..i : SameWindow(i, j)})

\* the requests for the key of request i that entered before it
Earlier(i) == {j \in 1..(i - 1) : reqs[j].key = reqs[i].key}

\* the last of them
Prev(i) == CHOOSE j \in Earlier(i) : \A h \in Earlier(i) : h <= j

Min(a, b) == IF a < b THEN a ELSE b

----------------------------------------------------------------------------
\* C1  Window ceiling: with max = M, the first M requests for a key within
\* one window are admitted and the later stage runs for each; the (M+1)-th
\* and every later one of that window is answered 429.  Equivalently a
\* request is admitted iff the count after its increment is <= M.
WindowCeiling ==
    \A i \in ReqIds :
        LET M == max(reqs[i].limiter)
        IN  /\ Ordinal(i) <= M => Admitted(i) /\ reqs[i].nextCalls = 1
            /\ Ordinal(i) > M => Rejected(i) /\ reqs[i].nextCalls = 0
            /\ Admitted(i) <=> reqs[i].count <= M

\* a window whose first M requests were admitted and whose (M+1)-th was not
WindowCeilingWitness ==
    \E i \in ReqIds :
        /\ Ordinal(i) = max(reqs[i].limiter) + 1
        /\ Rejected(i)
        /\ \A j \in Window(i) : j < i => Admitted(j)

\* C2  Preset independence: what a limiter answers for a key depends on the
\* requests that limiter handled, never on those another limiter handled.
\* So the first request a limiter ever handles for a key opens a window of
\* that limiter, and the count a request gets is its position among the
\* requests of its own limiter in that window.
PresetIndependence ==
    \A i \in ReqIds :
        LET l == reqs[i].limiter
            own == {j \in 1..i : reqs[j].limiter = l /\ SameWindow(i, j)}
        IN  /\ reqs[i].count = Cardinality(own)
            /\ Admitted(i) <=> Cardinality(own) <= max(l)
            /\ (\A j \in Earlier(i) : reqs[j].limiter # l) =>
                   /\ ResetOf(i) = reqs[i].at + windowMs(l)
                   /\ RemainingOf(i) = max(l) - 1

\* C3  Concurrency safety: however the requests of one window interleave,
\* those suspended in next() included, of N requests exactly min(N, M) are
\* admitted and the others rejected, and the entry has counted each of them
\* once.
ConcurrencySafety ==
    /\ \A i \in ReqIds :
           LET N == Cardinality(Window(i))
               M == max(reqs[i].limiter)
           IN  /\ Cardinality({j \in Window(i) : Admitted(j)}) = Min(N, M)
               /\ Cardinality({j \in Window(i) : Rejected(j)}) = N - Min(N, M)
    /\ \A k \in DOMAIN requestCounts :
           requestCounts[k].count =
               Cardinality({j \in ReqIds :
                   /\ reqs[j].key = k
                   /\ ResetOf(j) = requestCounts[k].resetTime})

\* more requests than M in one window, one of them rejected while two others
\* are still suspended in next()
ConcurrencySafetyWitness ==
    \E i \in ReqIds :
        /\ Rejected(i)
        /\ \E j, h \in Window(i) : j # h /\ reqs[j].pc = "next" /\ reqs[h].pc = "next"

\* C4  Reset: the first request for a key after the reset time of its last
\* window has passed (now > resetAt) is admitted, opens a window with
\* count = 1 and resetAt = now + windowMs, and reports remaining = M - 1.
ResetAfterWindow ==
    \A i \in ReqIds :
        (Earlier(i) # {} /\ ResetOf(Prev(i)) < reqs[i].at) =>
            /\ Admitted(i)
            /\ reqs[i].nextCalls = 1
            /\ reqs[i].count = 1
            /\ ResetOf(i) = reqs[i].at + windowMs(reqs[i].limiter)
            /\ RemainingOf(i) = max(reqs[i].limiter) - 1

\* a key that was over its limit is served again after the reset time
ResetAfterWindowWitness ==
    \E i \in ReqIds :
        /\ Earlier(i) # {}
        /\ Rejected(Prev(i))
        /\ ResetOf(Prev(i)) < reqs[i].at
        /\ Admitted(i)

\* C5  Inclusive boundary: a request arriving exactly at now = resetAt is
\* the first of a new window, and no count is incremented at now >= resetAt.
InclusiveBoundary ==
    \A i \in ReqIds :
        /\ (Earlier(i) # {} /\ ResetOf(Prev(i)) = reqs[i].at) =>
               /\ reqs[i].count = 1
               /\ ResetOf(i) = reqs[i].at + windowMs(reqs[i].limiter)
               /\ RemainingOf(i) = max(reqs[i].limiter) - 1
               /\ Admitted(i)
        /\ reqs[i].count > 1 => reqs[i].at < ResetOf(i)


----------------------------------------------------------------------------
\* a step in which a request for a key other than k went through a limiter
OtherKeyStep(k) ==
    /\ Len(reqs') = Len(reqs) + 1
    /\ reqs'[Len(reqs')].key # k

\* the entry of k is still active: the store does not treat it as expired
Active(k) ==
    /\ k \in DOMAIN requestCounts
    /\ requestCounts[k].resetTime >= now

\* a request under another key, sweep included, leaves an active entry as
\* it was
FrameStep ==
    \A k \in Keys :
        (Active(k) /\ OtherKeyStep(k)) =>
            /\ k \in DOMAIN requestCounts'
            /\ requestCounts'[k] = requestCounts[k]

\* what a request is answered follows from the earlier requests of its own
\* key alone: it continues the window of the last of them, or opens one
DecisionByOwnKey ==
    \A i \in ReqIds :
        LET l == reqs[i].limiter
            opens == Earlier(i) = {} \/ ResetOf(Prev(i)) < reqs[i].at
        IN  /\ opens => reqs[i].count = 1 /\ ResetOf(i) = reqs[i].at + windowMs(l)
            /\ ~opens => /\ reqs[i].count = reqs[Prev(i)].count + 1
                         /\ ResetOf(i) = ResetOf(Prev(i))
            /\ Admitted(i) <=> reqs[i].count <= max(l)
            /\ RemainingOf(i) = ClampZero(max(l) - reqs[i].count)

\* C6  Key isolation: a request under key k1, with the sweep it triggers,
\* leaves count and resetAt of every still-active entry of another key k2
\* unchanged, and what k2 is answered is the same with or without the
\* requests of k1.
KeyIsolation == [][FrameStep]_vars /\ []DecisionByOwnKey

\* a request of another key came between two requests of one window
KeyIsolationWitness ==
    \E i, j, h \in ReqIds :
        /\ i < j /\ j < h
        /\ reqs[i].key = reqs[h].key
        /\ reqs[j].key # reqs[i].key
        /\ SameWindow(i, h)
        /\ reqs[h].count = reqs[i].count + 1

\* the limiter decided against the request
OverLimit(i) == reqs[i].count > max(reqs[i].limiter)

\* C7  Short-circuit on rejection: every request gets one outcome; for a
\* rejected request next() is never called and the answer is the 429
\* response the handler returns; for an admitted one next() is called
\* exactly once and the answer is the one of the later stage.
ShortCircuit ==
    \A i \in ReqIds :
        /\ OverLimit(i) =>
               /\ reqs[i].nextCalls = 0
               /\ reqs[i].pc = "done"
               /\ reqs[i].status = RejectionStatus
        /\ ~OverLimit(i) =>
               /\ reqs[i].nextCalls = 1
               /\ reqs[i].status # RejectionStatus
               /\ reqs[i].pc = "next" <=> reqs[i].status = Pending

\* one request was refused and another went through the later stage
ShortCircuitWitness ==
    \E i, j \in ReqIds :
        /\ OverLimit(i) /\ reqs[i].pc = "done"
        /\ ~OverLimit(j) /\ reqs[j].pc = "done"

\* C8  Remaining monotonicity: within one window of one key the reported
\* remaining is max(0, M - n) for the n-th request, never increases, and is
\* 0 on an admitted request exactly when that request is the M-th.
RemainingMonotone ==
    \A i \in ReqIds :
        LET M == max(reqs[i].limiter)
        IN  /\ RemainingOf(i) = (IF Ordinal(i) >= M THEN 0 ELSE M - Ordinal(i))
            /\ \A j \in Window(i) : i < j => RemainingOf(j) <= RemainingOf(i)
            /\ (Admitted(i) /\ RemainingOf(i) = 0) <=> Ordinal(i) = M

\* a window that was counted down to 0 and then refused a request
RemainingMonotoneWitness ==
    \E i \in ReqIds :
        /\ Rejected(i) /\ RemainingOf(i) = 0
        /\ \A j \in Window(i) :
               j < i => Admitted(j) /\ RemainingOf(j) = max(reqs[i].limiter) - Ordinal(j)

\* C9  Stable headers: the limit header of a limiter is max on every
\* response; the reset reported for a key does not change while the window
\* lasts and changes only on the request that opens the next window.
StableHeaders ==
    \A i \in ReqIds :
        /\ reqs[i].headers["X-RateLimit-Limit"] = DecStr(max(reqs[i].limiter))
        /\ Earlier(i) # {} =>
               /\ reqs[i].at < ResetOf(Prev(i)) => ResetOf(i) = ResetOf(Prev(i))
               /\ ResetOf(i) # ResetOf(Prev(i)) =>
                      /\ reqs[i].count = 1
                      /\ reqs[i].at > ResetOf(Prev(i))
                      /\ ResetOf(i) = reqs[i].at + windowMs(reqs[i].limiter)

\* the same reset on two requests at different times, one of them refused,
\* then another reset on the request that opens the next window
StableHeadersWitness ==
    \E i, j, h \in ReqIds :
        /\ i < j /\ j < h
        /\ Rejected(j)
        /\ reqs[i].key = reqs[j].key /\ reqs[j].key = reqs[h].key
        /\ reqs[i].at < reqs[j].at
        /\ ResetOf(i) = ResetOf(j)
        /\ ResetOf(h) # ResetOf(j)

RateLimitHeaderNames ==
    {"X-RateLimit-Limit", "X-RateLimit-Remaining", "X-RateLimit-Reset"}

\* C10  Header presence: every response of a limited route carries the
\* limit, remaining and reset headers; Retry-After, status 429 and the body
\* {error: message} are there if and only if the request was rejected.
HeaderPresence ==
    \A i \in ReqIds :
        /\ RateLimitHeaderNames \subseteq DOMAIN reqs[i].headers
        /\ OverLimit(i) <=> "Retry-After" \in DOMAIN reqs[i].headers
        /\ OverLimit(i) <=> reqs[i].status = RejectionStatus
        /\ OverLimit(i) <=> reqs[i].body = [error |-> message(reqs[i].limiter)]

\* a rejection, and an admitted request answered with another error body
HeaderPresenceWitness ==
    \E i, j \in ReqIds :
        /\ OverLimit(i)
        /\ ~OverLimit(j) /\ reqs[j].pc = "done" /\ reqs[j].status = 404


----------------------------------------------------------------------------
RetryAfterOf(i) == reqs[i].headers["Retry-After"].dec

\* C11  Retry-After value: on every rejection Retry-After is the integer
\* ceil((resetAt - now) / 1000) for the entry that caused the rejection,
\* with 0 <= Retry-After <= ceil(windowMs / 1000).
RetryAfterValue ==
    \A i \in ReqIds :
        Rejected(i) =>
            LET d == ResetOf(i) - reqs[i].at
                r == RetryAfterOf(i)
            IN  /\ r \in Int
                /\ r * MsPerSecond >= d
                /\ (r - 1) * MsPerSecond < d
                /\ r >= 0
                /\ (r - 1) * MsPerSecond < windowMs(reqs[i].limiter)

\* a rejection a fraction of a second before the reset: rounded up to 1
RetryAfterValueWitness ==
    \E i \in ReqIds :
        /\ Rejected(i)
        /\ (ResetOf(i) - reqs[i].at) % MsPerSecond # 0
        /\ RetryAfterOf(i) = 1

\* the time, in ms, at which the Retry-After of the rejected request j ends
RetryAt(j) == reqs[j].at + RetryAfterOf(j) * MsPerSecond

\* C12  Retry-After can be polled against: when a request for a key is
\* rejected at time t with Retry-After = r, the first request for that key
\* at a time >= t + r seconds is admitted.
RetryAfterPoll ==
    \A j \in ReqIds :
        Rejected(j) =>
            \A i \in ReqIds :
                ( /\ j < i
                  /\ reqs[i].key = reqs[j].key
                  /\ reqs[i].at >= RetryAt(j)
                  /\ \A h \in ReqIds :
                         (j < h /\ h < i /\ reqs[h].key = reqs[j].key)
                             => reqs[h].at < RetryAt(j) )
                => Admitted(i)

\* C13  Configuration errors: no limiter that goes on to admit or reject
\* requests is built with windowMs <= 0 or max <= 0.
ConfigurationErrors ==
    \A i \in ReqIds :
        /\ windowMs(reqs[i].limiter) > 0
        /\ max(reqs[i].limiter) > 0


----------------------------------------------------------------------------
\* a step in which a request without CF-Connecting-IP goes through a
\* limiter is a step under the key "unknown"
AnonymousStep ==
    \A l \in AllLimiters :
        rateLimit(l, NoHeader) => reqs'[Len(reqs')].key = "unknown"

\* the requests under "unknown" share one budget: at most max of a window
\* are admitted
AnonymousBudget ==
    \A i \in ReqIds :
        reqs[i].key = "unknown" =>
            Cardinality({j \in Window(i) : Admitted(j)}) <= max(reqs[i].limiter)

\* C14  Anonymous pooling: the default key extractor gives every request a
\* key and gives every request without CF-Connecting-IP the key "unknown",
\* so that all such requests together get at most M admitted per window.
AnonymousPooling ==
    /\ [][AnonymousStep]_vars
    /\ [](\A ip \in CfConnectingIp : keyGenerator(ip) \in Keys /\ keyGenerator(ip) # "")
    /\ []AnonymousBudget

\* the shared budget was used up: M admitted under "unknown", then a refusal
AnonymousPoolingWitness ==
    \E i \in ReqIds :
        /\ reqs[i].key = "unknown"
        /\ Rejected(i)
        /\ Cardinality({j \in Window(i) : Admitted(j)}) = max(reqs[i].limiter)

\* C15  Counting of rejected requests: every request for a key adds exactly
\* 1 to the count of its entry, a rejected one too, so the count is the
\* number of requests of the window, admitted or not, and may exceed max;
\* a rejected response reports remaining 0.
CountsEveryRequest ==
    \A i \in ReqIds :
        /\ reqs[i].count = Ordinal(i)
        /\ (Len(reqs[i].prior) = 1 /\ ResetOf(i) = reqs[i].prior[1].resetTime) =>
               reqs[i].count = reqs[i].prior[1].count + 1
        /\ Rejected(i) =>
               /\ reqs[i].count > max(reqs[i].limiter)
               /\ RemainingOf(i) = 0

\* a rejected request counted after another rejected one
CountsEveryRequestWitness ==
    \E i \in ReqIds :
        /\ Rejected(i)
        /\ reqs[i].count >= max(reqs[i].limiter) + 2
        /\ Len(reqs[i].prior) = 1
        /\ reqs[i].prior[1].count = reqs[i].count - 1

\* the store of the same limiter with the sweep of lines 273-278 removed,
\* after the first n requests
RECURSIVE NoSweepStore(_)
NoSweepStore(n) ==
    IF n = 0
    THEN EmptyMap
    ELSE LET r == reqs[n]
             got == GetOrCreate(NoSweepStore(n - 1), r.key, r.at, windowMs(r.limiter))
         IN  [got EXCEPT ![r.key] = Touch(@)]

\* C16  Sweep is correctness-neutral: with the sweep and without it the
\* limiter gives the same decisions, remaining values and reset times, and
\* the sweep removes only entries that get-or-create would have replaced.
SweepNeutral ==
    /\ \A i \in ReqIds :
           LET e == NoSweepStore(i)[reqs[i].key]
               M == max(reqs[i].limiter)
           IN  /\ reqs[i].count = e.count
               /\ ResetOf(i) = e.resetTime
               /\ RemainingOf(i) = Remaining(M, e.count)
               /\ Rejected(i) <=> LimitExceeded(e.count, M)
    /\ \A k \in DOMAIN requestCounts :
           k \notin DOMAIN Sweep(requestCounts, now) =>
               WindowExpired(requestCounts[k], now)

\* a key whose entry a request of another key had swept away came back
SweepNeutralWitness ==
    \E i \in ReqIds :
        /\ Earlier(i) # {}
        /\ reqs[i].prior = <<>>
        /\ reqs[i].key \in DOMAIN NoSweepStore(i - 1)

\* C17  Sweep completeness: the sweep run at time now removes every entry
\* whose resetAt <= now and no entry whose resetAt > now.
SweepComplete ==
    LET swept == Sweep(requestCounts, now)
    IN  /\ \A k \in DOMAIN swept : swept[k].resetTime > now
        /\ \A k \in DOMAIN requestCounts :
               requestCounts[k].resetTime > now =>
                   k \in DOMAIN swept /\ swept[k] = requestCounts[k]


----------------------------------------------------------------------------
\* the step is a request for key k going through a limiter
RequestStep(k) ==
    /\ Len(reqs') = Len(reqs) + 1
    /\ reqs'[Len(reqs')].key = k

\* what a step may do to the entry of each key
ReplaceStep ==
    \A k \in Keys :
        LET had == k \in DOMAIN requestCounts
            has == k \in DOMAIN requestCounts'
            expired == had /\ requestCounts[k].resetTime < now
        IN  /\ (RequestStep(k) /\ (~had \/ expired)) =>
                   /\ has
                   /\ requestCounts'[k].resetTime =
                          now + windowMs(reqs'[Len(reqs')].limiter)
                   /\ requestCounts'[k].count = 0 + 1
            /\ (RequestStep(k) /\ had /\ ~expired) =>
                   /\ has
                   /\ requestCounts'[k].resetTime = requestCounts[k].resetTime
                   /\ requestCounts'[k].count = requestCounts[k].count + 1
            /\ (~RequestStep(k) /\ has) =>
                   had /\ requestCounts'[k] = requestCounts[k]
            /\ (~RequestStep(k) /\ had /\ ~expired) => has

\* C18  Entry replacement: an entry is replaced only by get-or-create, on a
\* request for its key, and exactly when the key has no entry or its entry
\* has expired (resetTime < now, as the store tests it); the entry installed
\* is {count: 0, resetTime: now + windowMs}, which the request then counts.
\* Otherwise the entry keeps its resetTime and its count but for that
\* request's increment: an active window is never restarted or extended.
EntryReplacement == [][ReplaceStep]_vars

\* one request went on in an entry opened earlier, another replaced an
\* expired entry
EntryReplacementWitness ==
    \E i, j \in ReqIds :
        /\ Len(reqs[i].prior) = 1
        /\ reqs[i].prior[1].resetTime >= reqs[i].at
        /\ reqs[i].at > reqs[i].prior[1].resetTime - windowMs(reqs[i].limiter)
        /\ ResetOf(i) = reqs[i].prior[1].resetTime
        /\ Len(reqs[j].prior) = 1
        /\ reqs[j].prior[1].resetTime < reqs[j].at
        /\ reqs[j].count = 1

\* the requests for the key of request i that were admitted at a time from
\* that of i on, less than (or, if closed, at most) d later
AdmittedFrom(i, d, closed) ==
    {j \in ReqIds :
        /\ reqs[j].key = reqs[i].key
        /\ Admitted(j)
        /\ reqs[i].at <= reqs[j].at
        /\ reqs[j].at - reqs[i].at < (IF closed THEN d + 1 ELSE d)}

\* C19  Straddle bound: for every limiter and key, no time interval of
\* length windowMs holds more than 2 x max admitted requests.
StraddleBound ==
    \A i \in ReqIds :
        Cardinality(AdmittedFrom(i, windowMs(reqs[i].limiter), TRUE))
            <= 2 * max(reqs[i].limiter)

\* admitted requests of two successive windows less than windowMs apart
StraddleBoundWitness ==
    \E i, j \in ReqIds :
        /\ i < j
        /\ reqs[i].key = reqs[j].key
        /\ ResetOf(i) # ResetOf(j)
        /\ Admitted(i) /\ Admitted(j)
        /\ reqs[j].at - reqs[i].at < windowMs(reqs[i].limiter)

RequestsFrom(i, d) ==
    {j \in ReqIds :
        /\ reqs[j].key = reqs[i].key
        /\ reqs[i].at <= reqs[j].at
        /\ reqs[j].at - reqs[i].at < d}

----------------------------------------------------------------------------
\* the instant at which the key of request i was first seen
FirstSeen(i) == reqs[CHOOSE j \in 1..i :
                        /\ reqs[j].key = reqs[i].key
                        /\ \A h \in 1..i : reqs[h].key = reqs[i].key => j <= h].at

\* C21  Window alignment: every reset time assigned to a key lies a whole
\* number n >= 1 of window lengths after the instant the key was first
\* seen, also after idle gaps longer than a window.
WindowAlignment ==
    \A i \in ReqIds :
        LET d == ResetOf(i) - FirstSeen(i)
            w == windowMs(reqs[i].limiter)
        IN  /\ d >= w
            /\ d % w = 0

----------------------------------------------------------------------------
\* an entry that is inconsistent at time t
Corrupt(e, t) == e.count < 0 \/ e.resetTime < t

----------------------------------------------------------------------------
CallIds == 1..Len(calls)

\* the request is to a path under /api/
UnderApi(request) == Len(request.path) > 1 /\ request.path[1] = "api"

\* the places of `name` in what a call ran
Places(c, name) == {n \in 1..Len(calls[c].ran) : calls[c].ran[n] = name}

\* validation, the route handlers and the statement they execute
ApplicationLogic ==
    {"validate.params", "validate.body", "putTodo", "UPDATE", "health", "notFound"}

\* what PUT /api/todos/:id runs once the handlers of every path are through
PutStages ==
    <<"apiRateLimit", "validate.params", "validate.body", "putTodo", "UPDATE">>

IsPutStage(name) == \E n \in 1..Len(PutStages) : PutStages[n] = name

\* the limiter came first and once, and each stage after the one before
RouteOrderState ==
    \A c \in CallIds :
        LET ran == calls[c].ran
            staged == SelectSeq(ran, IsPutStage)
        IN  UnderApi(calls[c].request) =>
              /\ Cardinality(Places(c, "apiRateLimit")) <= 1
              /\ calls[c].status # Pending =>
                     Cardinality(Places(c, "apiRateLimit")) = 1
              /\ \A n \in 1..Len(ran) :
                     ran[n] \in ApplicationLogic =>
                         /\ \E m \in 1..(n - 1) : ran[m] = "apiRateLimit"
                         /\ calls[c].req \in ReqIds
                         /\ ~OverLimit(calls[c].req)
              /\ Len(staged) <= Len(PutStages)
              /\ \A n \in 1..Len(staged) : staged[n] = PutStages[n]
              /\ calls[c].status = RejectionStatus =>
                     /\ ran[Len(ran)] = "apiRateLimit"
                     /\ OverLimit(calls[c].req)
              /\ calls[c].status = 400 => Places(c, "UPDATE") = {}
              /\ calls[c].req \in ReqIds =>
                     \A d \in CallIds : calls[d].req = calls[c].req => d = c

\* a call that has its answer runs no further stage
RouteOrderStep ==
    \A c \in CallIds : calls[c].status # Pending => calls'[c] = calls[c]

----------------------------------------------------------------------------
\* the latest request for `key` is admitted
AdmittedNow(key) == \E i \in ReqIds : reqs[i].key = key /\ Admitted(i)

\* no reset time lies more than a window length ahead
ResetWithinWindow ==
    \A k \in DOMAIN requestCounts, l \in mounted :
        requestCounts[k].resetTime - now <= windowMs(l)

\* a request is rejected only within the window length that follows the
\* opening of its window
RejectedInsideWindow ==
    \A i \in ReqIds :
        Rejected(i) =>
            /\ reqs[i].at <= ResetOf(i)
            /\ ResetOf(i) - reqs[i].at <= windowMs(reqs[i].limiter)

\* a request that is rejected leaves the reset time of its key where it was
RejectionKeepsReset ==
    \A k \in Keys :
        ( /\ requestCounts' # requestCounts
          /\ reqs' # <<>>
          /\ reqs'[Len(reqs')].key = k
          /\ reqs'[Len(reqs')].status = RejectionStatus )
        => /\ k \in DOMAIN requestCounts
           /\ requestCounts'[k].resetTime = requestCounts[k].resetTime

\* C24  No permanent lockout: while time keeps advancing and a key keeps
\* sending requests, rejected or not, the key is admitted again and again;
\* a rejected request does not postpone the reset, so the rejections of a
\* window end at most one window length after it began.
NoLockout ==
    /\ []<>AdmittedNow("unknown")
    /\ []ResetWithinWindow
    /\ []RejectedInsideWindow
    /\ [][RejectionKeepsReset]_vars

\* the key has been rejected as often as a client asks within one window,
\* up to the last instant of that window
NoLockoutWitness ==
    /\ "unknown" \in DOMAIN requestCounts
    /\ requestCounts["unknown"].count = MaxRequests
    /\ requestCounts["unknown"].resetTime = now
    /\ \E i \in ReqIds : reqs[i].key = "unknown" /\ Rejected(i)

----------------------------------------------------------------------------
\* C25  Store entry invariant: between requests every entry of the store
\* has count >= 1, and so every remaining value reported lies in
\* 0..max-1 and does not exceed the value of the limit header.
StoreEntryInvariant ==
    /\ \A k \in DOMAIN requestCounts : requestCounts[k].count >= 1
    /\ \A i \in ReqIds :
           /\ reqs[i].count >= 1
           /\ RemainingOf(i) \in 0..(max(reqs[i].limiter) - 1)
           /\ RemainingOf(i) <= LimitOf(i)

\* the store holds an entry that has counted one request, reported with the
\* largest remaining value, and a request was reported with the smallest
StoreEntryInvariantWitness ==
    /\ \E k \in DOMAIN requestCounts : requestCounts[k].count = 1
    /\ \E i, j \in ReqIds :
           /\ reqs[i].count = 1
           /\ RemainingOf(i) = max(reqs[i].limiter) - 1
           /\ RemainingOf(i) > 0
           /\ RemainingOf(j) = 0

----------------------------------------------------------------------------
\* the calls of a log that deleted, or added, a todo
Deleted(log) == {log[n].id : n \in {m \in Of(log, "deleteTodo") : log[m].ok}}
Added(log) == {log[n].id : n \in {m \in Of(log, "addTodo") : log[m].ok}}

\* every call of addTodo, toggleTodo and deleteTodo that settled began
\* after the list was loaded
BegunLoaded ==
    \A n \in 1..Len(settled) : settled[n].op # "loadTodos" => ~settled[n].loading

\* C26  UI list consistency under overlapping operations: once deleteTodo
\* of a todo has succeeded that todo is not in the list displayed, and a
\* todo added by a successful addTodo (and not deleted since) is in it,
\* however the calls of addTodo, toggleTodo and deleteTodo that were in
\* flight meanwhile settle.
ListConsistency ==
    BegunLoaded =>
        /\ Deleted(settled) \cap Ids(todos) = {}
        /\ (Added(settled) \ Deleted(settled)) \subseteq Ids(todos)

----------------------------------------------------------------------------
\* addTodo, toggleTodo and deleteTodo
ListHandlers == {"addTodo", "toggleTodo", "deleteTodo"}

\* the step begins a call of a handler of ListHandlers
BeginStep ==
    /\ Len(inflight') = Len(inflight) + 1
    /\ inflight'[Len(inflight')].op \in ListHandlers

\* the step settles a call of a handler of ListHandlers
SettleStep ==
    /\ Len(settled') = Len(settled) + 1
    /\ settled'[Len(settled')].op \in ListHandlers

\* the call the step settled got a response outside 200..299
Failed == settled'[Len(settled')].status \notin 200..299

\* the message of the handler whose call the step settled
FailureMessage ==
    LET op == settled'[Len(settled')].op
    IN  CASE op = "addTodo" -> "Failed to add todo"
          [] op = "toggleTodo" -> "Failed to update todo"
          [] op = "deleteTodo" -> "Failed to delete todo"

\* a call that fails changes nothing but the error message
FailureStep ==
    (SettleStep /\ Failed) =>
        /\ todos' = todos
        /\ newTodoText' = newTodoText
        /\ error' = FailureMessage

\* C27, as amended: a call of addTodo, toggleTodo or deleteTodo that fails
\* (any response outside 2xx, a 429 included) leaves the list displayed and
\* the input as they were and sets the error message; the message is set to
\* null when a handler begins, and a call that succeeds leaves it as it is:
\* null, unless another call failed since the last handler began.
ErrorHandling ==
    [][ /\ FailureStep
        /\ BeginStep => error' = Null
        /\ (SettleStep /\ ~Failed) => error' = error ]_vars

\* addTodo was answered 429: the list is empty as before, the message is
\* set and the text is still in the input
ErrorHandlingWitness ==
    /\ settled # <<>>
    /\ settled[Len(settled)].op = "addTodo"
    /\ settled[Len(settled)].status = RejectionStatus
    /\ error = "Failed to add todo"
    /\ newTodoText = "milk"
    /\ todos = <<>>

\* C27  UI state unchanged on error: a call of addTodo, toggleTodo or
\* deleteTodo that fails leaves the list displayed as it was, sets the
\* error message and does not clear the input; when a call succeeds the
\* error message is null.
UiUnchangedOnError ==
    [][ /\ FailureStep
        /\ (SettleStep /\ ~Failed) => error' = Null ]_vars

----------------------------------------------------------------------------
\* the step begins the call of loadTodos
LoadBeginStep ==
    /\ Len(inflight') = Len(inflight) + 1
    /\ inflight'[Len(inflight')].op = "loadTodos"

\* the step settles the call of loadTodos
LoadSettleStep ==
    /\ Len(settled') = Len(settled) + 1
    /\ settled'[Len(settled')].op = "loadTodos"

\* what a run of loadTodos does to the state
LoadStep ==
    /\ LoadBeginStep => loading' = TRUE
    /\ LoadSettleStep =>
           LET last == settled'[Len(settled')]
           IN  /\ loading' = FALSE
               /\ last.status \in 200..299 =>
                      /\ todos' = last.data
                      /\ error' = error
               /\ last.status \notin 200..299 =>
                      /\ todos' = todos
                      /\ error' = "Failed to load todos. Make sure the backend is running!"

\* C28  Loading state: the App is in the loading state when it is mounted;
\* every run of loadTodos ends with loading = false, whether the fetch
\* succeeded or failed; it sets the error message exactly when the fetch
\* failed and replaces the list by the fetched data exactly when it
\* succeeded.
LoadingState ==
    /\ loading = TRUE
    /\ [][LoadStep]_vars
    /\ [](Of(settled, "loadTodos") # {} => ~loading)
    /\ <>(Of(settled, "loadTodos") # {})

\* the fetch of loadTodos failed: the flag is cleared, the message is set
\* and the list is the one of the first render
LoadingStateWitness ==
    /\ Of(settled, "loadTodos") # {}
    /\ \A n \in Of(settled, "loadTodos") : ~settled[n].ok
    /\ ~loading
    /\ error = "Failed to load todos. Make sure the backend is running!"
    /\ todos = <<>>

====
